---- MODULE Spec2Model ----
(***************************************************************************)
(* The "preamble" rule of the SIP validator                                *)
(* (tools/validate/src/rules/preamble.ts): one handler, `yaml`, that is    *)
(* called with the front-matter node of a proposal and reports every rule  *)
(* violation through context.report.                                       *)
(*                                                                         *)
(* Text is modelled character by character: a string is a sequence of      *)
(* one-character strings.  node.value is a sequence of lines; a line       *)
(* [k, v] stands for the text  k ": " v  (a block-mapping entry), for      *)
(* "- " v when k = "-" (a block-sequence entry) and for the bare scalar v  *)
(* when k = "".  Header names stay atomic strings.                         *)
(***************************************************************************)
EXTENDS Integers, Sequences, FiniteSets, TLC

VARIABLES
  node,     \* the AstNode the handler is called with: [type, value]
  now,      \* what new Date() answers during the call
  reports,  \* the messages given to context.report, in order
  pc        \* "called", then "returned" or "thrown"

vars == <<node, now, reports, pc>>

(***************************************************************************)
(* Character classes of the regular expressions.                           *)
(***************************************************************************)
DigitChars == <<"0", "1", "2", "3", "4", "5", "6", "7", "8", "9">>

Digit == {DigitChars[i] : i \in 1..10}

Lower == {"a", "b", "c", "d", "e", "f", "g", "h", "i", "j", "k", "l", "m",
          "n", "o", "p", "q", "r", "s", "t", "u", "v", "w", "x", "y", "z"}

Upper == {"A", "B", "C", "D", "E", "F", "G", "H", "I", "J", "K", "L", "M",
          "N", "O", "P", "Q", "R", "S", "T", "U", "V", "W", "X", "Y", "Z"}

\* [a-zA-Z\d]
Alnum == Lower \cup Upper \cup Digit

\* \w
Word == Alnum \cup {"_"}

\* \s (the characters of it that the model's texts use)
Space == {" ", "\t"}

\* Number(text) for a text of decimal digits
DigitValue(c) == (CHOOSE i \in 1..10 : DigitChars[i] = c) - 1

RECURSIVE Number(_)
Number(s) ==
  IF s = <<>> THEN 0
  ELSE 10 * Number(SubSeq(s, 1, Len(s) - 1)) + DigitValue(s[Len(s)])

AllIn(s, class) == \A i \in 1..Len(s) : s[i] \in class

(***************************************************************************)
(* The constant tables of the rule.  A JavaScript Set or Map iterates in   *)
(* insertion order, so the iterated ones are sequences.                    *)
(***************************************************************************)
Range(s) == {s[i] : i \in 1..Len(s)}

\* variant: the table without its author row
HEADER_TYPES_NoAuthor ==
  [sip |-> "number", title |-> "string", status |-> "string",
   created |-> "string", updated |-> "string"]

HEADER_TYPES ==
  [sip |-> "number", title |-> "string", status |-> "string",
   author |-> "string", created |-> "string", updated |-> "string"]

HEADER_ORDER ==
  <<"sip", "title", "status", "category", "author", "created", "updated">>

\* variant: created left out of the required headers
HEADER_REQUIRED_NoCreated == <<"sip", "title", "status", "category", "author">>

HEADER_REQUIRED ==
  <<"sip", "title", "status", "category", "author", "created">>

HEADER_OPTIONAL == <<"updated">>

\* variant: the optional headers left out
HEADER_ALL_RequiredOnly == Range(HEADER_REQUIRED)

HEADER_ALL == Range(HEADER_REQUIRED) \cup Range(HEADER_OPTIONAL)

HEADER_DATES == <<"created", "updated">>

Draft == <<"D", "r", "a", "f", "t">>
Review == <<"R", "e", "v", "i", "e", "w">>
Final == <<"F", "i", "n", "a", "l">>
Withdrawn == <<"W", "i", "t", "h", "d", "r", "a", "w", "n">>
Living == <<"L", "i", "v", "i", "n", "g">>
living == <<"l", "i", "v", "i", "n", "g">>

STATUES == {Draft, Review, Final, Withdrawn, Living}

Core == <<"C", "o", "r", "e">>
Blockchain == <<"B", "l", "o", "c", "k", "c", "h", "a", "i", "n">>
Meta == <<"M", "e", "t", "a">>

CATEGORIES == {Core, Blockchain, Meta}

(***************************************************************************)
(* JavaScript values: typeof and, for a string or a number, its text.      *)
(***************************************************************************)
JSValue(type, text) == [type |-> type, text |-> text]

Undefined == JSValue("undefined", <<>>)

JSNull == JSValue("object", <<>>)

\* the empty array, written []
FlowSequence == JSValue("object", <<"[", "]">>)

(***************************************************************************)
(* YAML.parse(node.value), for documents made of single-line scalars: the  *)
(* core schema's resolution of a scalar, then the document's shape.        *)
(***************************************************************************)
\* an unterminated double-quoted scalar or flow sequence is a syntax error
MalformedScalar(v) ==
  /\ v # <<>>
  /\ \/ /\ v[1] = "\""
        /\ \/ Len(v) < 2
           \/ v[Len(v)] # "\""
           \/ \E i \in 2..(Len(v) - 1) : v[i] = "\""
     \/ v[1] = "[" /\ v # <<"[", "]">>

Resolve(v) ==
  IF v = <<>> \/ v = <<"~">> \/ v = <<"n", "u", "l", "l">> THEN JSNull
  ELSE IF v[1] = "#" THEN JSNull
  ELSE IF v[1] = "\"" THEN JSValue("string", SubSeq(v, 2, Len(v) - 1))
  ELSE IF v[1] = "[" THEN FlowSequence
  ELSE IF AllIn(v, Digit) THEN JSValue("number", v)
  ELSE IF v = <<"t", "r", "u", "e">> \/ v = <<"f", "a", "l", "s", "e">>
    THEN JSValue("boolean", v)
  ELSE JSValue("string", v)

\* Object.entries of an array names its elements "0", "1", ...
IndexNames == <<"0", "1", "2", "3", "4", "5", "6", "7">>

\* what YAML.parse did: threw, or answered a value with this typeof, null or
\* not, an array or not, and (an object or an array) these entries
Decoded(threw, type, isNull, isArray, entries) ==
  [threw |-> threw, type |-> type, isNull |-> isNull, isArray |-> isArray,
   entries |-> entries]

YAMLparse(value) ==
  LET n == Len(value)
      Thrown == Decoded(TRUE, "undefined", FALSE, FALSE, <<>>)
  IN
  IF n = 0 THEN Decoded(FALSE, "object", TRUE, FALSE, <<>>)
  ELSE IF \E i \in 1..n : MalformedScalar(value[i].v) THEN Thrown
  ELSE IF \A i \in 1..n : value[i].k = "-"
    THEN Decoded(FALSE, "object", FALSE, TRUE,
           [i \in 1..n |-> [key |-> IndexNames[i], value |-> Resolve(value[i].v)]])
  ELSE IF \A i \in 1..n : value[i].k = ""
    THEN IF n = 1
         THEN LET r == Resolve(value[1].v)
              IN Decoded(FALSE, r.type, r = JSNull, r = FlowSequence, <<>>)
         ELSE Decoded(FALSE, "string", FALSE, FALSE, <<>>)
  ELSE IF /\ \A i \in 1..n : value[i].k \notin {"-", ""}
          /\ \A i, j \in 1..n : value[i].k = value[j].k => i = j
    THEN Decoded(FALSE, "object", FALSE, FALSE,
           [i \in 1..n |-> [key |-> value[i].k, value |-> Resolve(value[i].v)]])
  ELSE Thrown

\* Object.keys(preamble)
Keys(preamble) == [i \in 1..Len(preamble.entries) |-> preamble.entries[i].key]

\* header in preamble
In(header, preamble) == header \in Range(Keys(preamble))

\* preamble[header]
Get(preamble, header) ==
  IF In(header, preamble)
  THEN LET i == CHOOSE j \in 1..Len(preamble.entries) :
                  preamble.entries[j].key = header
       IN preamble.entries[i].value
  ELSE Undefined

(***************************************************************************)
(* assertIsPreamble: TRUE when it throws.                                  *)
(***************************************************************************)
WrongType(entry) ==
  /\ entry.key \in DOMAIN HEADER_TYPES
  /\ entry.value.type # HEADER_TYPES[entry.key]

assertIsPreamble(preamble) ==
  \/ preamble.type # "object"
  \/ preamble.isNull
  \/ \E i \in 1..Len(preamble.entries) : WrongType(preamble.entries[i])

(***************************************************************************)
(* isValidDate.  `now` holds what new Date() answers: getFullYear(),       *)
(* getMonth() (0 for January) and getDate().                               *)
(***************************************************************************)
\* data.match(ISO8601) !== null
ISO8601(data) ==
  /\ Len(data) = 10
  /\ \A i \in {1, 2, 3, 4, 6, 7, 9, 10} : data[i] \in Digit
  /\ data[5] = "-"
  /\ data[8] = "-"

\* variant: a calendar comparison, "not later than today"
isValidDate_Calendar(data, today) ==
  /\ ISO8601(data)
  /\ LET year == Number(SubSeq(data, 1, 4))
         month == Number(SubSeq(data, 6, 7))
         day == Number(SubSeq(data, 9, 10))
     IN \/ year < today.fullYear
        \/ year = today.fullYear /\ month < today.month + 1
        \/ year = today.fullYear /\ month = today.month + 1 /\ day <= today.date

isValidDate(data, today) ==
  /\ ISO8601(data)
  /\ LET year == Number(SubSeq(data, 1, 4))
         month == Number(SubSeq(data, 6, 7))
         day == Number(SubSeq(data, 9, 10))
     IN /\ year <= today.fullYear
        /\ month <= today.month + 1
        /\ day <= today.date

(***************************************************************************)
(* The AUTHOR pattern,                                                     *)
(*   ^\w[.\w\s]*(?: (?:<.+@.+>(?: (\(@GH\)))?)|(\(@GH\)))?$                *)
(* with GH = [a-zA-Z\d](?:[a-zA-Z\d]|-(?=[a-zA-Z\d])){0,38}.               *)
(* AUTHOR(s) is what s.match(AUTHOR) answers: Null, or the array of the    *)
(* whole match and the two capture groups, <<>> for a group that did not   *)
(* take part (a handle that took part is never empty).                     *)
(***************************************************************************)
GITHUB_USERNAME_TAIL == 38

GITHUB_USERNAME(h) ==
  /\ Len(h) >= 1
  /\ Len(h) - 1 <= GITHUB_USERNAME_TAIL
  /\ h[1] \in Alnum
  /\ \A i \in 2..Len(h) :
       \/ h[i] \in Alnum
       \/ h[i] = "-" /\ i < Len(h) /\ h[i + 1] \in Alnum

\* s[a..Len(s)] is \(@GH\)
HandleAt(s, a) ==
  /\ a >= 1
  /\ Len(s) - a + 1 >= 4
  /\ s[a] = "("
  /\ s[a + 1] = "@"
  /\ s[Len(s)] = ")"
  /\ GITHUB_USERNAME(SubSeq(s, a + 2, Len(s) - 1))

\* s[a..b] is <.+@.+>
EMAIL(s, a, b) ==
  /\ 1 <= a
  /\ b <= Len(s)
  /\ b - a >= 4
  /\ s[a] = "<"
  /\ s[b] = ">"
  /\ \E t \in (a + 2)..(b - 2) : s[t] = "@"

\* s[1..p] is \w[.\w\s]*
NameUpTo(s, p) ==
  /\ 1 <= p
  /\ p <= Len(s)
  /\ s[1] \in Word
  /\ \A i \in 2..p : s[i] \in Word \cup Space \cup {"."}

Null == <<>>

AUTHOR(s) ==
  LET n == Len(s)
      From(a) == SubSeq(s, a, n)
      WithEmailAndHandle ==
        {<<p, b>> \in (1..n) \X (1..n) :
           /\ NameUpTo(s, p)
           /\ p + 1 <= n /\ s[p + 1] = " "
           /\ EMAIL(s, p + 2, b)
           /\ b + 1 <= n /\ s[b + 1] = " "
           /\ HandleAt(s, b + 2)}
      WithEmail ==
        {p \in 1..n :
           /\ NameUpTo(s, p)
           /\ p + 1 <= n /\ s[p + 1] = " "
           /\ EMAIL(s, p + 2, n)}
      WithHandle == {p \in 1..n : NameUpTo(s, p) /\ HandleAt(s, p + 1)}
  IN
  IF WithEmailAndHandle # {}
    THEN LET pb == CHOOSE x \in WithEmailAndHandle : TRUE
         IN <<s, From(pb[2] + 2), <<>> >>
  ELSE IF WithEmail # {} THEN <<s, <<>>, <<>> >>
  ELSE IF WithHandle # {}
    THEN LET p == CHOOSE x \in WithHandle : TRUE
         IN <<s, <<>>, From(p + 1)>>
  ELSE IF n >= 1 /\ NameUpTo(s, n) THEN <<s, <<>>, <<>> >>
  ELSE Null

\* String.prototype.trim
RECURSIVE trim(_)
trim(s) ==
  IF s = <<>> THEN s
  ELSE IF s[1] \in Space THEN trim(Tail(s))
  ELSE IF s[Len(s)] \in Space THEN trim(SubSeq(s, 1, Len(s) - 1))
  ELSE s

\* String.prototype.split(","): the pieces between the commas, at least one
RECURSIVE split(_)
split(s) ==
  IF \E i \in 1..Len(s) : s[i] = ","
  THEN LET c == CHOOSE i \in 1..Len(s) :
                  s[i] = "," /\ \A j \in 1..(i - 1) : s[j] # ","
       IN <<SubSeq(s, 1, c - 1)>> \o split(SubSeq(s, c + 1, Len(s)))
  ELSE <<s>>

(***************************************************************************)
(* context.report({message, node}): the message's template and the header  *)
(* name interpolated into it ("" when the message has none).               *)
(***************************************************************************)
Report(message, header) == [message |-> message, header |-> header]

MsgNotYaml == "The front-matter is not proper YAML"
MsgRequired == "Required header \"${required}\" is missing from preamble."
MsgUnknown == "Preamble has unknown header \"${header}\"."
MsgOrder == "Preamble header \"${header}\" is not in proper order"
MsgDate == "Preamble header \"${dateHeader}\" is not a valid date in ISO 8601 format"
MsgStatus == "Header \"status\" is not a valid status"
MsgUpdated == "SIP has status of \"living\" but doesn't have \"updated\" header"
MsgCategory == "Header \"category\" is not a valid category"
MsgMalformed == "Preamble header \"author\" is malformed"
MsgGithub == "Preamble header \"author\" doesn't have at least one github account"

\* what a part of the handler did: the reports it made, and whether it threw
Did(made, threw) == [reports |-> made, threw |-> threw]

\* a; b
Then(a, b) == IF a.threw THEN a ELSE Did(a.reports \o b.reports, b.threw)

(***************************************************************************)
(* Validate all required headers; validate only required and optional      *)
(* headers.                                                                *)
(***************************************************************************)
RequiredReports(preamble) ==
  LET missing == SelectSeq(HEADER_REQUIRED, LAMBDA r : ~In(r, preamble))
  IN [i \in 1..Len(missing) |-> Report(MsgRequired, missing[i])]

UnknownReports(preamble) ==
  LET unknown == SelectSeq(Keys(preamble), LAMBDA h : h \notin HEADER_ALL)
  IN [i \in 1..Len(unknown) |-> Report(MsgUnknown, unknown[i])]

(***************************************************************************)
(* Validate header order.                                                  *)
(***************************************************************************)
\* how the header names of the model's texts are spelled
Spelling ==
  [sip |-> <<"s", "i", "p">>,
   title |-> <<"t", "i", "t", "l", "e">>,
   status |-> <<"s", "t", "a", "t", "u", "s">>,
   category |-> <<"c", "a", "t", "e", "g", "o", "r", "y">>,
   author |-> <<"a", "u", "t", "h", "o", "r">>,
   created |-> <<"c", "r", "e", "a", "t", "e", "d">>,
   updated |-> <<"u", "p", "d", "a", "t", "e", "d">>,
   foo |-> <<"f", "o", "o">>,
   Bar |-> <<"B", "a", "r">>,
   x_y |-> <<"x", "_", "y">>]

\* the line matches ^([a-z]+):.+$ (a bare scalar of the model holds no colon)
HEADERS_REGEX(line) ==
  /\ line.k \notin {"-", ""}
  /\ AllIn(Spelling[line.k], Lower)
  /\ line.v # <<>>

\* HEADERS_REGEX.exec(node.value)?.slice(1) ?? []: the pattern has no g flag,
\* so exec answers the first matching line only, and slice(1) its one group
orderedHeaders(value) ==
  LET matching == SelectSeq(value, HEADERS_REGEX)
  IN IF matching = <<>> THEN <<>> ELSE <<matching[1].k>>

\* name in array: the property names of an array are its indices and
\* "length" (and the names of Array.prototype, none of them a header name)
InArray(name, array) ==
  name \in {IndexNames[i] : i \in 1..Len(array)} \cup {"length"}

RECURSIVE OrderLoop(_, _)
OrderLoop(ordered, orderIndex) ==
  IF orderIndex >= Len(ordered) THEN <<>>
  ELSE LET header == ordered[orderIndex + 1]
           expected == IF orderIndex < Len(HEADER_ORDER)
                       THEN HEADER_ORDER[orderIndex + 1]
                       ELSE "undefined"
       IN IF InArray(expected, ordered) /\ header # expected
          THEN <<Report(MsgOrder, header)>>
          ELSE OrderLoop(ordered, orderIndex + 1)

OrderReports(value) == OrderLoop(orderedHeaders(value), 0)

(***************************************************************************)
(* Validate dates.  isValidDate calls data.match: that throws a TypeError  *)
(* when the value is no string.                                            *)
(***************************************************************************)
DateStep(did, dateHeader, preamble, today) ==
  IF did.threw \/ ~In(dateHeader, preamble) THEN did
  ELSE LET data == Get(preamble, dateHeader)
       IN IF data.type # "string" THEN Did(did.reports, TRUE)
          ELSE IF ~isValidDate(data.text, today)
            THEN Did(Append(did.reports, Report(MsgDate, dateHeader)), FALSE)
          ELSE did

RECURSIVE DateLoop(_, _, _, _)
DateLoop(did, i, preamble, today) ==
  IF i > Len(HEADER_DATES) THEN did
  ELSE DateLoop(DateStep(did, HEADER_DATES[i], preamble, today),
                i + 1, preamble, today)

DateReports(preamble, today) == DateLoop(Did(<<>>, FALSE), 1, preamble, today)

(***************************************************************************)
(* Validate proper status, updated, proper category.                       *)
(***************************************************************************)
\* set.has(value): a Set of strings holds no value of another type
Has(set, value) == value.type = "string" /\ value.text \in set

StatusReports(preamble) ==
  IF Get(preamble, "status") # Undefined /\ ~Has(STATUES, Get(preamble, "status"))
  THEN <<Report(MsgStatus, "")>>
  ELSE <<>>

\* variant: the comparison spelled as the status vocabulary spells it
UpdatedReports_Capital(preamble) ==
  IF Get(preamble, "status") = JSValue("string", Living) /\ ~In("updated", preamble)
  THEN <<Report(MsgUpdated, "")>>
  ELSE <<>>

UpdatedReports(preamble) ==
  IF Get(preamble, "status") = JSValue("string", living) /\ ~In("updated", preamble)
  THEN <<Report(MsgUpdated, "")>>
  ELSE <<>>

CategoryReports(preamble) ==
  IF Get(preamble, "category") # Undefined
     /\ ~Has(CATEGORIES, Get(preamble, "category"))
  THEN <<Report(MsgCategory, "")>>
  ELSE <<>>

(***************************************************************************)
(* Validate author.  The loop's state is the reports made, hasGithub and   *)
(* whether the loop has left by break.                                     *)
(***************************************************************************)
Scan(made, hasGithub, broke) ==
  [reports |-> made, hasGithub |-> hasGithub, broke |-> broke]

\* variant: no break after a malformed author
AuthorStep_NoBreak(scan, author) ==
  LET match == AUTHOR(trim(author))
  IN IF match = Null
     THEN Scan(Append(scan.reports, Report(MsgMalformed, "")), TRUE, FALSE)
     ELSE Scan(scan.reports, scan.hasGithub \/ Len(match) >= 2, FALSE)

AuthorStep(scan, author) ==
  LET match == AUTHOR(trim(author))
  IN IF match = Null
     THEN Scan(Append(scan.reports, Report(MsgMalformed, "")), TRUE, TRUE)
     ELSE Scan(scan.reports, scan.hasGithub \/ Len(match) >= 2, FALSE)

RECURSIVE AuthorLoop(_, _, _)
AuthorLoop(scan, i, authors) ==
  IF i > Len(authors) \/ scan.broke THEN scan
  ELSE AuthorLoop(AuthorStep(scan, authors[i]), i + 1, authors)

AuthorReports(preamble) ==
  IF ~In("author", preamble) THEN Did(<<>>, FALSE)
  ELSE LET author == Get(preamble, "author")
       IN IF author.type # "string" THEN Did(<<>>, TRUE)
          ELSE LET scan == AuthorLoop(Scan(<<>>, FALSE, FALSE), 1,
                                      split(author.text))
               IN Did(scan.reports \o
                        (IF ~scan.hasGithub THEN <<Report(MsgGithub, "")>>
                         ELSE <<>>),
                      FALSE)

(***************************************************************************)
(* descriptor.create(context).yaml(node)                                   *)
(***************************************************************************)
yaml(n, today) ==
  IF n.type # "yaml" THEN Did(<<>>, TRUE)
  ELSE LET preamble == YAMLparse(n.value)
       IN IF preamble.threw \/ assertIsPreamble(preamble)
          THEN Did(<<Report(MsgNotYaml, "")>>, FALSE)
          ELSE Then(Did(RequiredReports(preamble), FALSE),
               Then(Did(UnknownReports(preamble), FALSE),
               Then(Did(OrderReports(n.value), FALSE),
               Then(DateReports(preamble, today),
               Then(Did(StatusReports(preamble), FALSE),
               Then(Did(UpdatedReports(preamble), FALSE),
               Then(Did(CategoryReports(preamble), FALSE),
                    AuthorReports(preamble))))))))

Yaml ==
  /\ pc = "called"
  /\ LET did == yaml(node, now)
     IN /\ reports' = reports \o did.reports
        /\ pc' = IF did.threw THEN "thrown" ELSE "returned"
  /\ UNCHANGED <<node, now>>

Next == Yaml

(***************************************************************************)
(* The texts the handler is called with.                                   *)
(***************************************************************************)
MaxUnknown == 1     \* headers outside HEADER_ALL in one preamble
MaxMistyped == 1    \* headers of one preamble whose value has another type
MaxItems == 2       \* elements of a block sequence
MaxAuthors == 2     \* comma-separated entries of one author header
YearSpan == 2       \* the years of the date texts: 2023..2023 + YearSpan

Line(k, v) == [k |-> k, v |-> v]

AstNode(type, value) == [type |-> type, value |-> value]

\* new Date() on the given day
Today(year, month, day) == [fullYear |-> year, month |-> month - 1, date |-> day]

\* n in decimal, w characters wide
RECURSIVE Decimal(_, _)
Decimal(n, w) ==
  IF w = 0 THEN <<>> ELSE Append(Decimal(n \div 10, w - 1), DigitChars[(n % 10) + 1])

DateText(year, month, day) ==
  Decimal(year, 4) \o <<"-">> \o Decimal(month, 2) \o <<"-">> \o Decimal(day, 2)

Quoted(text) == <<"\"">> \o text \o <<"\"">>

JaneHandle == <<"J", " ", "(", "@", "j", ")">>
JaneDoe == <<"J", " ", "D">>
JaneEmail == <<"J", " ", "<", "j", "@", "x", ">">>
NoAtEmail == <<"J", " ", "<", "j", "x", ">">>

\* per header: the values of the declared type, the first one breaking no rule
RuleValues ==
  [sip |-> <<<<"1">>>>,
   title |-> <<<<"T">>>>,
   status |-> <<Draft, Living, living>>,
   category |-> <<Core, <<"c", "o", "r", "e">>>>,
   author |-> <<JaneHandle, JaneDoe, NoAtEmail>>,
   created |-> <<DateText(2024, 1, 15), DateText(2024, 13, 1)>>,
   updated |-> <<DateText(2024, 6, 15), DateText(2999, 1, 1)>>]

GoodValues == [h \in DOMAIN RuleValues |-> <<RuleValues[h][1]>>]

\* per header: a value of another type than every header's declared one
MistypedValue ==
  [sip |-> Quoted(<<"1">>),
   title |-> <<"7">>,
   status |-> <<"5">>,
   category |-> <<"5">>,
   author |-> <<>>,
   created |-> <<"2", "0", "2", "4">>,
   updated |-> <<"t", "r", "u", "e">>]

\* the preambles with headers i.. of HEADER_ORDER in that order, each absent
\* or with one of its values, at most `mistyped` of them of another type
RECURSIVE Preambles(_, _, _)
Preambles(i, mistyped, values) ==
  IF i > Len(HEADER_ORDER) THEN {<<>>}
  ELSE LET h == HEADER_ORDER[i]
           rest == Preambles(i + 1, mistyped, values)
       IN rest
          \cup {<<Line(h, values[h][j])>> \o r : j \in 1..Len(values[h]), r \in rest}
          \cup (IF mistyped = 0 THEN {}
                ELSE {<<Line(h, MistypedValue[h])>> \o r :
                        r \in Preambles(i + 1, mistyped - 1, values)})

UnknownLines ==
  <<Line("foo", <<"1">>), Line("Bar", <<"x">>), Line("x_y", <<>>)>>

Swap(text, i) ==
  [j \in 1..Len(text) |->
     IF j = i THEN text[i + 1] ELSE IF j = i + 1 THEN text[i] ELSE text[j]]

StructTexts ==
  {p \o SubSeq(UnknownLines, 1, u) :
     p \in Preambles(1, MaxMistyped, RuleValues), u \in 0..MaxUnknown}

OrderTexts ==
  {Swap(p, i) : <<p, i>> \in
     {<<q, j>> \in Preambles(1, 0, GoodValues) \X (1..(Len(HEADER_ORDER) - 1)) :
        j < Len(q)}}

\* the texts that are no block mapping, or none at all
FormTexts ==
  {<<>>}
  \cup {<<Line("", v)>> :
          v \in {<<"x">>, <<"7">>, <<"t", "r", "u", "e">>, <<"~">>, <<"#", "x">>,
                 Quoted(<<"x">>), <<"\"", "x">>, <<"[">>, <<"[", "]">>}}
  \cup {<<Line("", <<"x">>), Line("", <<"y">>)>>}
  \cup {[i \in 1..n |-> Line("-", <<"x">>)] : n \in 1..MaxItems}
  \cup {<<Line("sip", <<"1">>), Line("-", <<"x">>)>>,
        <<Line("sip", <<"1">>), Line("", <<"x">>)>>,
        <<Line("sip", <<"1">>), Line("sip", <<"2">>)>>,
        <<Line("sip", <<"1">>), Line("title", <<"\"", "T">>)>>}

\* the preamble that breaks no rule on 2024-06-15, and it with one header's
\* value replaced
GoodPreamble ==
  [i \in 1..Len(HEADER_ORDER) |->
     Line(HEADER_ORDER[i], GoodValues[HEADER_ORDER[i]][1])]

With(text, header, v) ==
  [i \in 1..Len(text) |-> IF text[i].k = header THEN Line(header, v) ELSE text[i]]

Without(text, header) == SelectSeq(text, LAMBDA l : l.k # header)

DateTexts ==
  {DateText(y, m, d) :
     y \in 2023..(2023 + YearSpan), m \in {1, 6, 12, 13}, d \in {1, 15, 31}}
  \cup {Quoted(DateText(2024, 6, 15)),
        Quoted(<<>>),
        <<"2", "0", "2", "4", "-", "6", "-", "1", "5">>,
        <<"2", "0", "2", "4", "/", "0", "6", "/", "1", "5">>,
        <<"x">> \o DateText(2024, 6, 15)}

DatePreambles ==
  {With(GoodPreamble, "created", c) : c \in DateTexts}
  \cup {Without(With(GoodPreamble, "created", c), "updated") : c \in DateTexts}
  \cup {With(With(GoodPreamble, "created", c), "updated", u) :
          c \in {DateText(2024, 1, 15), DateText(2025, 1, 1)},
          u \in DateTexts}

Days ==
  {Today(y, md[1], md[2]) :
     y \in {2024, 2025},
     md \in {<<1, 1>>, <<1, 31>>, <<6, 15>>, <<12, 1>>, <<12, 31>>}}

\* a handle of n characters
LongHandle(n) == <<"J", " ", "(", "@">> \o [i \in 1..n |-> "a"] \o <<")">>

AuthorEntries ==
  {JaneHandle, JaneDoe, JaneEmail, NoAtEmail,
   JaneEmail \o <<" ", "(", "@", "j", "-", "d", ")">>,
   <<" ">> \o JaneDoe \o <<" ">>,
   <<" ">> \o JaneHandle,
   <<"J", ".", "(", "@", "j", "4", ")">>,
   <<"J", " ", "(", "@", "-", "j", ")">>,
   <<"J", " ", "(", "@", "j", "-", ")">>,
   <<"J", " ", "(", "j", ")">>,
   <<"#", "b", "#">>,
   <<>>,
   LongHandle(GITHUB_USERNAME_TAIL + 1),
   LongHandle(GITHUB_USERNAME_TAIL + 2)}

\* entries joined by commas, 1..n of them
RECURSIVE AuthorTexts(_)
AuthorTexts(n) ==
  IF n = 1 THEN AuthorEntries
  ELSE AuthorTexts(n - 1)
       \cup {e \o <<",">> \o t : e \in AuthorEntries, t \in AuthorTexts(n - 1)}

AuthorPreambles ==
  {With(GoodPreamble, "author", Quoted(a)) : a \in AuthorTexts(MaxAuthors)}
  \cup {With(With(GoodPreamble, "author", Quoted(a)), "status", living) :
          a \in AuthorTexts(1)}

Call(n, today) == [node |-> n, now |-> today]

Calls ==
  {Call(AstNode("yaml", t), Today(2024, 6, 15)) :
     t \in StructTexts \cup OrderTexts \cup FormTexts \cup AuthorPreambles}
  \cup {Call(AstNode("heading", t), Today(2024, 6, 15)) : t \in FormTexts}
  \cup {Call(AstNode("yaml", t), today) : t \in DatePreambles, today \in Days}

Init ==
  /\ \E call \in Calls : node = call.node /\ now = call.now
  /\ reports = <<>>
  /\ pc = "called"

Spec == Init /\ [][Next]_vars

(***************************************************************************)
(* What the claims speak of.                                               *)
(***************************************************************************)
Parsed == YAMLparse(node.value)

\* the call on a yaml node has returned
Returned == pc = "returned" /\ node.type = "yaml"

\* the reports with this message and header name / with this message
Count(message, header) ==
  Cardinality({i \in 1..Len(reports) : reports[i] = Report(message, header)})

CountOf(message) ==
  Cardinality({i \in 1..Len(reports) : reports[i].message = message})

\* the call has returned and the text was taken as a preamble
IsPreamble == Returned /\ CountOf(MsgNotYaml) = 0

\* the header names in the order of the text
TextHeaders == [i \in 1..Len(node.value) |-> node.value[i].k]

Value(header) == Get(Parsed, header)

RecognizedFields ==
  {"sip", "title", "status", "category", "author", "created", "updated"}

RequiredFields == {"sip", "title", "status", "category", "author", "created"}

CanonicalOrder ==
  <<"sip", "title", "status", "category", "author", "created", "updated">>

\* all headers, or all but the optional one, in the canonical order
InCanonicalOrder(headers) ==
  headers = CanonicalOrder \/ headers = SubSeq(CanonicalOrder, 1, 6)

DeclaredType(header) == IF header = "sip" THEN "number" ELSE "string"

\* syntactically invalid, or decoding to a scalar, an array or null
NotAnObject ==
  Parsed.threw \/ Parsed.type # "object" \/ Parsed.isNull \/ Parsed.isArray

\* the author entries, each trimmed and matched against the author pattern
AuthorMatches ==
  LET authors == split(Value("author").text)
  IN [i \in 1..Len(authors) |-> AUTHOR(trim(authors[i]))]

HasAuthor == IsPreamble /\ Value("author").type = "string"

CarriesHandle(match) == match # Null /\ (match[2] # <<>> \/ match[3] # <<>>)

\* C1: for a text that is syntactically invalid or decodes to a scalar, an
\* array or null, the call makes exactly one report, the "not proper YAML"
\* one, and no field-level report.
C1_NotYamlOnly == Returned /\ NotAnObject => reports = <<Report(MsgNotYaml, "")>>

\* C2: when a recognized field (sip, title, status, category, author,
\* created, updated) is present with a value whose type is not its declared
\* one (sip a number, the others strings), the call makes exactly one report
\* and stops: no field-level report is made.
C2_TypeMismatchOnly ==
  (/\ Returned
   /\ ~NotAnObject
   /\ \E h \in RecognizedFields :
        In(h, Parsed) /\ Value(h).type # DeclaredType(h))
  => reports = <<Report(MsgNotYaml, "")>>

\* C3: headers in the canonical order get no order report, and with any two
\* adjacent headers of a canonically ordered preamble swapped exactly one
\* order report is made.
C3_OrderCheck ==
  IsPreamble =>
    /\ InCanonicalOrder(TextHeaders) => CountOf(MsgOrder) = 0
    /\ \A i \in 1..(Len(TextHeaders) - 1) :
         InCanonicalOrder(Swap(TextHeaders, i)) => CountOf(MsgOrder) = 1

\* C4: when every author entry matches the author pattern, the "at least one
\* github account" report is made if none of them carries a (@handle), and
\* is not made if one of them does.
C4_HandleRequired ==
  (/\ HasAuthor
   /\ \A i \in 1..Len(AuthorMatches) : AuthorMatches[i] # Null)
  => CountOf(MsgGithub) =
       IF \E i \in 1..Len(AuthorMatches) : CarriesHandle(AuthorMatches[i])
       THEN 0 ELSE 1

StatusIsLiving == IsPreamble /\ Value("status") = JSValue("string", living)

\* C5, as stated: a preamble whose status is "living" gets the invalid-status
\* report and never the "living but no updated header" report, whether or not
\* updated is present.
C5_NeverUpdatedReport ==
  StatusIsLiving => CountOf(MsgStatus) = 1 /\ CountOf(MsgUpdated) = 0

\* C5, amended: a preamble whose status is "living" gets the invalid-status
\* report, and gets the "living but no updated header" report exactly when
\* the updated header is absent.
C5_LivingLowercase ==
  StatusIsLiving =>
    /\ CountOf(MsgStatus) = 1
    /\ CountOf(MsgUpdated) = IF In("updated", Parsed) THEN 0 ELSE 1

C5_Witness ==
  /\ StatusIsLiving
  /\ ~In("updated", Parsed)
  /\ reports = <<Report(MsgStatus, ""), Report(MsgUpdated, "")>>

\* four digits, two digits, two digits, hyphens between them
DatePattern(text) ==
  /\ Len(text) = 10
  /\ text[5] = "-" /\ text[8] = "-"
  /\ \A i \in (1..10) \ {5, 8} : text[i] \in Digit

YearOf(text) == Number(SubSeq(text, 1, 4))
MonthOf(text) == Number(SubSeq(text, 6, 7))
DayOf(text) == Number(SubSeq(text, 9, 10))

\* C6: for created and updated, when present, exactly one date report naming
\* the field is made if the value does not match the pattern, or its year is
\* above the current year, or its month above the current month, or its day
\* above the current day, and none otherwise; so a future year is rejected
\* on every day, and so is month 13.
C6_DateValidity ==
  IsPreamble =>
    \A f \in {"created", "updated"} :
      In(f, Parsed) /\ Value(f).type = "string" =>
        LET text == Value(f).text
            rejected ==
              \/ ~DatePattern(text)
              \/ YearOf(text) > now.fullYear
              \/ MonthOf(text) > now.month + 1
              \/ DayOf(text) > now.date
        IN /\ Count(MsgDate, f) = IF rejected THEN 1 ELSE 0
           /\ DatePattern(text) /\ YearOf(text) > now.fullYear
                => Count(MsgDate, f) = 1
           /\ DatePattern(text) /\ MonthOf(text) = 13 => Count(MsgDate, f) = 1

\* an earlier day of the calendar, rejected for its month alone
C6_Witness ==
  /\ IsPreamble
  /\ In("created", Parsed)
  /\ Value("created").type = "string"
  /\ DatePattern(Value("created").text)
  /\ YearOf(Value("created").text) < now.fullYear
  /\ MonthOf(Value("created").text) > now.month + 1
  /\ MonthOf(Value("created").text) <= 12
  /\ DayOf(Value("created").text) <= now.date
  /\ Count(MsgDate, "created") = 1

\* C7: for a decoded preamble, exactly one missing-required report is made
\* for each required field that is absent and none for one that is present,
\* whatever other rules the preamble breaks.
C7_RequiredFields ==
  IsPreamble =>
    \A r \in RequiredFields :
      Count(MsgRequired, r) = IF In(r, Parsed) THEN 0 ELSE 1

C7_Witness ==
  /\ IsPreamble
  /\ Count(MsgRequired, "sip") = 1
  /\ Count(MsgRequired, "created") = 1
  /\ Count(MsgRequired, "title") = 0
  /\ In("title", Parsed)
  /\ CountOf(MsgUnknown) = 1
  /\ CountOf(MsgStatus) = 1
  /\ CountOf(MsgCategory) = 1
  /\ CountOf(MsgMalformed) = 1
  /\ Count(MsgDate, "updated") = 1

\* the date check of C6 passes
PassesDateCheck(text) ==
  /\ DatePattern(text)
  /\ YearOf(text) <= now.fullYear
  /\ MonthOf(text) <= now.month + 1
  /\ DayOf(text) <= now.date

\* all required fields, correctly typed, in canonical order, valid dates,
\* status and category of the vocabularies, one author with a handle
WellFormed ==
  /\ node.type = "yaml"
  /\ ~NotAnObject
  /\ InCanonicalOrder(TextHeaders)
  /\ \A h \in Range(TextHeaders) : Value(h).type = DeclaredType(h)
  /\ \A h \in Range(TextHeaders) \cap {"created", "updated"} :
       PassesDateCheck(Value(h).text)
  /\ Value("status").text \in {Draft, Review, Final, Withdrawn, Living}
  /\ Value("category").text \in {Core, Blockchain, Meta}
  /\ Len(split(Value("author").text)) = 1
  /\ CarriesHandle(AUTHOR(trim(Value("author").text)))

\* C8: a preamble with all required fields, correctly typed, in canonical
\* order, with valid dates, valid status and category and a single
\* well-formed author carrying a (@handle) gets no report at all.
C8_EndToEnd == pc # "called" /\ WellFormed => pc = "returned" /\ reports = <<>>

C8_Witness ==
  /\ pc = "returned"
  /\ WellFormed
  /\ In("updated", Parsed)
  /\ reports = <<>>

\* C9: whatever the text of a yaml node, the call returns and throws nothing
\* to its caller.
C9_NoFault == node.type = "yaml" => pc # "thrown"

\* an author that is no string: the call returns, with the decode report
C9_Witness ==
  /\ Returned
  /\ ~NotAnObject
  /\ In("author", Parsed)
  /\ Value("author").type # "string"
  /\ reports = <<Report(MsgNotYaml, "")>>

\* C10: when an author entry fails the author pattern, exactly one
\* malformed-author report is made, however many entries fail, and the "at
\* least one github account" report is not made, even if no earlier entry
\* carried a handle.
C10_MalformedAuthor ==
  (/\ HasAuthor
   /\ \E i \in 1..Len(AuthorMatches) : AuthorMatches[i] = Null)
  => CountOf(MsgMalformed) = 1 /\ CountOf(MsgGithub) = 0

\* two malformed entries and no handle before them
C10_Witness ==
  /\ HasAuthor
  /\ Len(AuthorMatches) >= 2
  /\ AuthorMatches[1] = Null
  /\ AuthorMatches[2] = Null
  /\ CountOf(MsgMalformed) = 1
  /\ CountOf(MsgGithub) = 0

====
